---- MODULE Spec2Model ----
(***************************************************************************)
(* State-machine model of the earnings notifier (src/earnings_bot.py and   *)
(* its twin src/earnings_monitor.py): the scheduler task                   *)
(* earnings_monitor_loop, the delivery task discord_message_sender, the    *)
(* asyncio queue that joins them, and the dedup file posted_earnings.json. *)
(* Both tasks run on one asyncio event loop, so a task runs without        *)
(* interruption from one await that suspends to the next.                  *)
(***************************************************************************)
EXTENDS Integers, Sequences, FiniteSets, TLC

\* ------------------------------------------------------------------ bounds

\* How many times the process is stopped and started again in one behaviour.
MaxRestarts == 1

\* The longest a scan of the universe lasts, in seconds.
MaxScanSeconds == 1800

\* ------------------------------------------------------- program constants

FetchSecondLimit == 5
CutoffHour == 20
CooldownSeconds == 61
TickSeconds == 1
MaxSize == 0
PreviewLimit == 10
FetchMinutes == {0, 30}
Placeholder == "Unbekannt"

\* ------------------------------------------------------------ wall clock

SecondsPerDay == 24 * 60 * 60

HMS(d, h, m, s) == d * SecondsPerDay + h * 3600 + m * 60 + s

Date(t) == t \div SecondsPerDay
Hour(t) == (t % SecondsPerDay) \div 3600
Minute(t) == (t % 3600) \div 60
Second(t) == t % 60

\* The instants at which the wall clock is sampled in a behaviour: around the
\* 19:30 and 20:00 fetch windows of day 0.
Instants ==
    { HMS(0, 19, 29, 59), HMS(0, 19, 30, 0), HMS(0, 19, 30, 4), HMS(0, 19, 30, 5),
      HMS(0, 19, 31, 1), HMS(0, 20, 0, 3), HMS(0, 20, 1, 4) }

FirstInstant == HMS(0, 19, 29, 59)

\* ------------------------------------------------------- ticker universe

NaN == ""

\* The Symbol column of nasdaq_tickers.csv: a missing cell and a repeated row.
TickerFile == << "AAA", NaN, "BBB", "AAA" >>

\* The symbols the file names.
Tickers == { TickerFile[i] : i \in 1..Len(TickerFile) } \ {NaN}

RECURSIVE Unique(_)
Unique(s) ==
    IF s = << >> THEN << >>
    ELSE LET rest == Unique(SubSeq(s, 1, Len(s) - 1))
             last == s[Len(s)]
         IN  IF \E i \in 1..Len(rest) : rest[i] = last THEN rest
             ELSE Append(rest, last)

DropNa(s) == SelectSeq(s, LAMBDA x : x # NaN)

\* df['Symbol'].dropna().unique().tolist(), for the Symbol column read
SymbolsOf(file) == Unique(DropNa(file))

SymbolColumn == SymbolsOf(TickerFile)

\* load_tickers of earnings_bot.py swallows the error and returns []; the one
\* of earnings_monitor.py lets it propagate. file is the Symbol column of the
\* CSV when it can be read.
load_tickers_of(file, prog, csv_ok) ==
    IF csv_ok THEN [raised |-> FALSE, tickers |-> SymbolsOf(file)]
    ELSE IF prog = "earnings_bot" THEN [raised |-> FALSE, tickers |-> << >>]
    ELSE [raised |-> TRUE, tickers |-> << >>]

load_tickers(prog, csv_ok) == load_tickers_of(TickerFile, prog, csv_ok)

\* ------------------------------------------------------- market data

\* What yfinance answers for one ticker's calendar: an exception, an empty
\* calendar (or NaT), or the next earnings timestamp.
NoTime == 0
Timestamps == { HMS(0, 9, 0, 30), HMS(1, 7, 30, 0) }
CalendarAnswers ==
    { [kind |-> "error", at |-> NoTime], [kind |-> "empty", at |-> NoTime] }
    \cup { [kind |-> "ts", at |-> t] : t \in Timestamps }

\* What .info answers: a dict with shortName, a dict without it, an exception.
InfoAnswers == {"named", "unnamed", "error"}

\* The .info answers drawn in the cycles of Spec; ScanSpec draws all three.
LookupAnswers == {"named", "error"}

\* The calendar answers drawn in the cycles of Spec: an exception or a
\* timestamp; ScanSpec draws the empty calendar too.
CycleAnswers == { a \in CalendarAnswers : a.kind # "empty" }

ShortName(ticker) == ticker \o " Inc"

\* get_next_earnings_for_ticker: every exception becomes None.
get_next_earnings_for_ticker(answer) ==
    IF answer.kind = "ts" THEN [some |-> TRUE, at |-> answer.at]
    ELSE [some |-> FALSE, at |-> NoTime]

\* strftime('%Y-%m-%d %H:%M'): the seconds are dropped.
Strftime(t) == << Date(t), Hour(t), Minute(t) >>

\* .info.get('shortName', 'Unbekannt'); only called when .info did not raise.
CompanyOf(ticker, info) == IF info = "named" THEN ShortName(ticker) ELSE Placeholder

\* A loop that puts each event it finds in front of those found before.
RECURSIVE ScanFrom_Prepends(_, _, _, _, _, _)
ScanFrom_Prepends(tickers, i, target_date, cal, inf, acc) ==
    IF i > Len(tickers) THEN [raised |-> FALSE, earnings |-> acc]
    ELSE LET ticker == tickers[i]
             earnings_dt == get_next_earnings_for_ticker(cal[ticker])
         IN  IF earnings_dt.some /\ Date(earnings_dt.at) = target_date
             THEN IF inf[ticker] = "error"
                  THEN [raised |-> TRUE, earnings |-> << >>]
                  ELSE ScanFrom_Prepends(tickers, i + 1, target_date, cal, inf,
                                << [ticker |-> ticker,
                                    company |-> CompanyOf(ticker, inf[ticker]),
                                    datetime |-> Strftime(earnings_dt.at)] >> \o acc)
             ELSE ScanFrom_Prepends(tickers, i + 1, target_date, cal, inf, acc)

\* The for loop of get_earnings_calendar from position i on, acc the events
\* appended so far. A raising .info ends the loop with the exception.
RECURSIVE ScanFrom(_, _, _, _, _, _)
ScanFrom(tickers, i, target_date, cal, inf, acc) ==
    IF i > Len(tickers) THEN [raised |-> FALSE, earnings |-> acc]
    ELSE LET ticker == tickers[i]
             earnings_dt == get_next_earnings_for_ticker(cal[ticker])
         IN  IF earnings_dt.some /\ Date(earnings_dt.at) = target_date
             THEN IF inf[ticker] = "error"
                  THEN [raised |-> TRUE, earnings |-> << >>]
                  ELSE ScanFrom(tickers, i + 1, target_date, cal, inf,
                                Append(acc, [ticker |-> ticker,
                                             company |-> CompanyOf(ticker, inf[ticker]),
                                             datetime |-> Strftime(earnings_dt.at)]))
             ELSE ScanFrom(tickers, i + 1, target_date, cal, inf, acc)

\* target_date = datetime.today().date() + timedelta(days=1 if for_tomorrow else 0)
TargetDate(today, for_tomorrow) == Date(today) + (IF for_tomorrow THEN 1 ELSE 0)

\* get_earnings_calendar: "universe" when load_tickers raised, "scan" when the
\* loop raised, else the events.
get_earnings_calendar_of(file, prog, csv_ok, today, for_tomorrow, cal, inf) ==
    LET loaded == load_tickers_of(file, prog, csv_ok)
        scanned == ScanFrom(loaded.tickers, 1, TargetDate(today, for_tomorrow),
                            cal, inf, << >>)
    IN  IF loaded.raised THEN [raised |-> "universe", earnings |-> << >>]
        ELSE IF scanned.raised THEN [raised |-> "scan", earnings |-> << >>]
        ELSE [raised |-> "none", earnings |-> scanned.earnings]

get_earnings_calendar(prog, csv_ok, today, for_tomorrow, cal, inf) ==
    get_earnings_calendar_of(TickerFile, prog, csv_ok, today, for_tomorrow, cal, inf)

\* A preview that shows every event.
Preview_All(earnings) == earnings

\* earnings[:10]
Preview(earnings) ==
    SubSeq(earnings, 1, IF Len(earnings) < PreviewLimit THEN Len(earnings) ELSE PreviewLimit)

\* ------------------------------------------------------- dedup file

TickersOf(events) == { events[i].ticker : i \in 1..Len(events) }

Range(s) == { s[i] : i \in 1..Len(s) }

\* list(data): the elements of the set in some order, each once.
Listings(data) ==
    { s \in [1..Cardinality(data) -> data] : Range(s) = data }

\* json.dump of a list: the text of a JSON array, token by token.
JsonDump(lst) == << "[" >> \o lst \o << "]" >>

\* What is left on disk when the write stops early: open(file, "w") has
\* truncated the file and a proper prefix of the text has been written.
PartialWrites(text) == { SubSeq(text, 1, k) : k \in 0..(Len(text) - 1) }

NoFile == [exists |-> FALSE, text |-> << >>]

\* json.load accepts exactly a complete array.
JsonValid(text) ==
    /\ Len(text) >= 2
    /\ text[1] = "["
    /\ text[Len(text)] = "]"
    /\ \A i \in 2..(Len(text) - 1) : text[i] \notin {"[", "]"}

JsonLoad(text) == SubSeq(text, 2, Len(text) - 1)

\* load_posted: an absent file is the empty set; a file json.load rejects raises.
LoadRaises(file) == file.exists /\ ~JsonValid(file.text)

load_posted(file) == IF file.exists THEN Range(JsonLoad(file.text)) ELSE {}

\* The set a reader of the file gets; a file that cannot be read holds none.
DiskSet(file) == IF LoadRaises(file) THEN {} ELSE load_posted(file)

\* ------------------------------------------------------- reconciliation

\* new_earnings = [e for e in earnings if e['ticker'] not in already_posted]
NewEarnings(earnings, posted) == SelectSeq(earnings, LAMBDA e : e.ticker \notin posted)

\* A reconciliation that forgets to record what it enqueues.
Added_Forgets(new_earnings, posted) == posted

\* already_posted.add(e['ticker']) for every new event
Added(new_earnings, posted) == posted \cup TickersOf(new_earnings)

\* A queue built with room for one batch.
Full_Bounded(queue) == Len(queue) >= 1

\* asyncio.Queue.full(): a queue built without maxsize is never full, so that
\* put never suspends the task that calls it.
Full(queue) == MaxSize > 0 /\ Len(queue) >= MaxSize

\* A put that does not look at what it puts.
Put_Always(queue, new_earnings) == Append(queue, new_earnings)

\* await message_queue.put(new_earnings), only when new_earnings is not empty
Put(queue, new_earnings) ==
    IF new_earnings # << >> THEN Append(queue, new_earnings) ELSE queue

\* handle_earnings_summary
handle_earnings_summary(earnings, posted, queue) ==
    LET new_earnings == NewEarnings(earnings, posted)
    IN  [already_posted |-> Added(new_earnings, posted),
         message_queue |-> Put(queue, new_earnings),
         new_earnings |-> new_earnings]

\* A window that still counts the second of the limit.
FetchDue_Inclusive(now) == Minute(now) \in FetchMinutes /\ Second(now) <= FetchSecondLimit

\* now.minute in [0, 30] and now.second < 5
FetchDue(now) == Minute(now) \in FetchMinutes /\ Second(now) < FetchSecondLimit

\* ------------------------------------------------------------------ state

VARIABLES
    program,         \* the entry point that runs: earnings_bot or earnings_monitor
    clock,           \* the wall clock, in seconds
    restarts,        \* process stops and starts so far
    pc,              \* earnings_monitor_loop: start, loop, save, cooldown, dead
    already_posted,  \* its local set
    cycle,           \* the locals of the cycle in progress
    err,             \* the error the scheduler met last
    disk,            \* posted_earnings.json
    message_queue,   \* the asyncio.Queue of batches
    wpc,             \* discord_message_sender: get, send, dead
    sending,         \* the events of the dequeued batch still to send
    werr,            \* the error the worker met last
    sent,            \* tickers the sink has received a message for, in order
    enqueued,        \* per ticker, how many batches put on a queue held it
    write_failed,    \* whether a rewrite of the dedup file ever stopped early
    drawn,           \* ScanSpec and QuerySpec: the answers the one scan gets
    reply            \* what the earnings command answered last

vars == << program, clock, restarts, pc, already_posted, cycle, err, disk,
           message_queue, wpc, sending, werr, sent, enqueued, write_failed, drawn, reply >>

sched_vars == << pc, already_posted, cycle, err >>
worker_vars == << wpc, sending, werr, sent >>

NoCalendar == [t \in Tickers |-> [kind |-> "empty", at |-> NoTime]]
NoInfo == [t \in Tickers |-> "named"]

\* No cycle in progress.
NoCycle ==
    [active |-> FALSE, target_date |-> 0, earnings |-> << >>,
     new_earnings |-> << >>, before |-> {}]

NoDraw == [csv_ok |-> TRUE, cal |-> NoCalendar, inf |-> NoInfo]

\* The earnings command has not been used.
NoReply == [kind |-> "none", target_date |-> 0, events |-> << >>]

\* The process just started, on a first run (no dedup file yet). Spec follows
\* earnings_bot.py; the two entry points differ in load_tickers alone, and
\* ScanSpec draws either.
Init ==
    /\ program = "earnings_bot"
    /\ clock = FirstInstant
    /\ restarts = 0
    /\ pc = "start"
    /\ already_posted = {}
    /\ cycle = NoCycle
    /\ err = "none"
    /\ disk = NoFile
    /\ message_queue = << >>
    /\ wpc = "get"
    /\ sending = << >>
    /\ werr = "none"
    /\ sent = << >>
    /\ enqueued = [t \in Tickers |-> 0]
    /\ write_failed = FALSE
    /\ drawn = NoDraw
    /\ reply = NoReply

\* ------------------------------------------------------------- scheduler

\* already_posted = load_posted(POSTED_EARNINGS_FILE), at the start of the task
LoadPosted ==
    /\ pc = "start"
    /\ IF LoadRaises(disk)
       THEN /\ pc' = "dead"
            /\ err' = "load"
            /\ already_posted' = already_posted
       ELSE /\ pc' = "loop"
            /\ err' = err
            /\ already_posted' = load_posted(disk)
    /\ UNCHANGED << program, clock, restarts, cycle, disk, message_queue,
                    worker_vars, enqueued, write_failed, drawn, reply >>

\* The else branch of the loop: await asyncio.sleep(1). The sleep lasts at
\* least a second; the clock is next sampled at a later instant.
IdleTick ==
    /\ pc = "loop"
    /\ ~FetchDue(clock)
    /\ \E later \in Instants :
         /\ later >= clock + TickSeconds
         /\ clock' = later
    /\ UNCHANGED << program, restarts, sched_vars, disk, message_queue,
                    worker_vars, enqueued, write_failed, drawn, reply >>

\* The inputs of one scan that the code can tell apart: .info is only asked
\* for a ticker whose date matches, the calendar only when the CSV was read.
ScanInputs(csv_ok, target_date, cal, inf) ==
    /\ csv_ok \/ (cal = NoCalendar /\ inf = NoInfo)
    /\ \A t \in Tickers :
         (cal[t].kind = "ts" /\ Date(cal[t].at) = target_date) \/ inf[t] = "named"

\* The count of each ticker in the batches that after holds beyond before,
\* added to the count so far.
BumpEnqueued(before, after) ==
    [t \in Tickers |->
        enqueued[t] + Cardinality({ i \in (Len(before) + 1)..Len(after) :
                                     t \in TickersOf(after[i]) })]

\* The instants datetime.today() can be read at in a scan that starts at now
\* and ends at done, one for each date it can give.
TodayReads(now, done) == IF Date(done) = Date(now) THEN {now} ELSE {now, done}

\* The instants a scan that starts at now can end at.
ScanEnds(now) == { t \in Instants : t >= now /\ t - now <= MaxScanSeconds }

\* The if branch up to save_posted: the scan and handle_earnings_summary, with
\* no await that suspends in between (put goes through at once unless the
\* queue is full). today is the instant datetime.today() is read inside
\* get_earnings_calendar, done the instant the scan ends.
FireOn(csv_ok, cal, inf, today, done) ==
    /\ pc = "loop"
    /\ FetchDue(clock)
    /\ \E for_tomorrow \in {Hour(clock) >= CutoffHour} :
       \E got \in {get_earnings_calendar(program, csv_ok, today, for_tomorrow, cal, inf)} :
       \E handled \in {handle_earnings_summary(got.earnings, already_posted, message_queue)} :
          /\ clock' = done
          /\ cycle' = [active |-> TRUE,
                       target_date |-> TargetDate(today, for_tomorrow),
                       earnings |-> got.earnings,
                       new_earnings |-> handled.new_earnings,
                       before |-> already_posted]
          /\ IF got.raised # "none"
             THEN /\ pc' = "dead"
                  /\ err' = got.raised
                  /\ UNCHANGED << already_posted, message_queue, enqueued >>
             ELSE /\ handled.new_earnings = << >> \/ ~Full(message_queue)
                  /\ pc' = "save"
                  /\ err' = IF csv_ok THEN "none" ELSE "universe"
                  /\ already_posted' = handled.already_posted
                  /\ message_queue' = handled.message_queue
                  /\ enqueued' = BumpEnqueued(message_queue, handled.message_queue)
    /\ UNCHANGED << program, restarts, disk, worker_vars, write_failed, drawn, reply >>

\* A cycle in which the CSV cannot be read: no ticker is asked about.
FireUnreadable ==
    /\ pc = "loop"
    /\ FetchDue(clock)
    /\ \E done \in ScanEnds(clock) : \E today \in TodayReads(clock, done) :
          FireOn(FALSE, NoCalendar, NoInfo, today, done)

\* A cycle in which the CSV is read and every ticker is asked about.
Fire ==
    /\ pc = "loop"
    /\ FetchDue(clock)
    /\ \E cal \in [Tickers -> CycleAnswers], inf \in [Tickers -> LookupAnswers],
          done \in ScanEnds(clock) :
          \E today \in TodayReads(clock, done) :
             /\ ScanInputs(TRUE, TargetDate(today, Hour(clock) >= CutoffHour), cal, inf)
             /\ FireOn(TRUE, cal, inf, today, done)

\* save_posted(already_posted, POSTED_EARNINGS_FILE) runs to the end.
SavePostedOk ==
    /\ pc = "save"
    /\ \E lst \in Listings(already_posted) :
         disk' = [exists |-> TRUE, text |-> JsonDump(lst)]
    /\ pc' = "cooldown"
    /\ cycle' = NoCycle
    /\ UNCHANGED << program, clock, restarts, already_posted, err, message_queue,
                    worker_vars, enqueued, write_failed, drawn, reply >>

\* open(file, "w") raises: the file is as it was, the exception leaves the loop.
SavePostedOpenFails ==
    /\ pc = "save"
    /\ pc' = "dead"
    /\ err' = "write"
    /\ write_failed' = TRUE
    /\ cycle' = NoCycle
    /\ UNCHANGED << program, clock, restarts, already_posted, disk,
                    message_queue, worker_vars, enqueued, drawn, reply >>

\* The write raises after open truncated the file: a prefix is on disk.
SavePostedWriteFails ==
    /\ pc = "save"
    /\ \E lst \in Listings(already_posted) :
         \E text \in PartialWrites(JsonDump(lst)) :
            disk' = [exists |-> TRUE, text |-> text]
    /\ pc' = "dead"
    /\ err' = "write"
    /\ write_failed' = TRUE
    /\ cycle' = NoCycle
    /\ UNCHANGED << program, clock, restarts, already_posted,
                    message_queue, worker_vars, enqueued, drawn, reply >>

\* A cooldown no longer than a tick.
Cooldown_Tick ==
    /\ pc = "cooldown"
    /\ \E later \in Instants :
         /\ later >= clock + TickSeconds
         /\ clock' = later
    /\ pc' = "loop"
    /\ UNCHANGED << program, restarts, already_posted, cycle, err, disk,
                    message_queue, worker_vars, enqueued, write_failed, drawn, reply >>

\* await asyncio.sleep(61)
Cooldown ==
    /\ pc = "cooldown"
    /\ \E later \in Instants :
         /\ later >= clock + CooldownSeconds
         /\ clock' = later
    /\ pc' = "loop"
    /\ UNCHANGED << program, restarts, already_posted, cycle, err, disk,
                    message_queue, worker_vars, enqueued, write_failed, drawn, reply >>

\* ---------------------------------------------------------------- worker

\* A scheduler that gives up control between the put and save_posted.
WorkerMayRun_BeforeSave == pc \in {"loop", "cooldown", "dead", "save"}

\* The worker runs only while the scheduler is suspended in a sleep or has
\* ended: message_queue.put on the unbounded queue never suspends, and the
\* scan and save_posted are synchronous.
WorkerMayRun == pc \in {"loop", "cooldown", "dead"}

\* A worker on a thread of its own, which does not wait for the scheduler to
\* be suspended.
Dequeue_Threaded ==
    /\ wpc = "get"
    /\ message_queue # << >>
    /\ message_queue' = Tail(message_queue)
    /\ sending' = Head(message_queue)
    /\ wpc' = "send"
    /\ werr' = "none"
    /\ UNCHANGED << program, clock, restarts, sched_vars, disk, sent,
                    enqueued, write_failed, drawn, reply >>

\* A queue that hands out the batch put last.
Dequeue_Lifo ==
    /\ pc \in {"loop", "cooldown", "dead"}
    /\ wpc = "get"
    /\ message_queue # << >>
    /\ message_queue' = SubSeq(message_queue, 1, Len(message_queue) - 1)
    /\ sending' = message_queue[Len(message_queue)]
    /\ wpc' = "send"
    /\ werr' = "none"
    /\ UNCHANGED << program, clock, restarts, sched_vars, disk, sent,
                    enqueued, write_failed, drawn, reply >>

\* earnings = await message_queue.get(), and bot.get_channel finds the channel.
Dequeue ==
    /\ WorkerMayRun
    /\ wpc = "get"
    /\ message_queue # << >>
    /\ message_queue' = Tail(message_queue)
    /\ sending' = Head(message_queue)
    /\ wpc' = "send"
    /\ werr' = "none"
    /\ UNCHANGED << program, clock, restarts, sched_vars, disk, sent,
                    enqueued, write_failed, drawn, reply >>

\* bot.get_channel returns None: the batch is dropped with a message.
DequeueNoChannel ==
    /\ WorkerMayRun
    /\ wpc = "get"
    /\ message_queue # << >>
    /\ message_queue' = Tail(message_queue)
    /\ werr' = "no_channel"
    /\ UNCHANGED << program, clock, restarts, sched_vars, disk, wpc, sending,
                    sent, enqueued, write_failed, drawn, reply >>

\* await channel.send(msg) returns: the next event of the batch, or the next get.
SendOk ==
    /\ WorkerMayRun
    /\ wpc = "send"
    /\ sent' = Append(sent, Head(sending).ticker)
    /\ sending' = Tail(sending)
    /\ wpc' = IF Tail(sending) = << >> THEN "get" ELSE "send"
    /\ UNCHANGED << program, clock, restarts, sched_vars, disk, message_queue,
                    werr, enqueued, write_failed, drawn, reply >>

\* await channel.send(msg) raises: nothing catches it, the task ends.
SendFails ==
    /\ WorkerMayRun
    /\ wpc = "send"
    /\ wpc' = "dead"
    /\ werr' = "send"
    /\ sending' = << >>
    /\ UNCHANGED << program, clock, restarts, sched_vars, disk, message_queue,
                    sent, enqueued, write_failed, drawn, reply >>

\* --------------------------------------------------------------- command

\* The earnings command of earnings_bot.py; earnings_monitor.py has none. Its
\* handler runs on the event loop, so only while the scheduler is suspended;
\* the hour is read when it starts, today inside get_earnings_calendar, and
\* the scan is done at instant done. An exception leaves it without a reply.
QueryOn(file, csv_ok, cal, inf, today, done) ==
    /\ program = "earnings_bot"
    /\ WorkerMayRun
    /\ \E for_tomorrow \in {Hour(clock) >= CutoffHour} :
       \E got \in {get_earnings_calendar_of(file, program, csv_ok, today,
                                             for_tomorrow, cal, inf)} :
          reply' = [kind |-> IF got.raised # "none" THEN "raised"
                             ELSE IF got.earnings = << >> THEN "empty"
                             ELSE "preview",
                    target_date |-> TargetDate(today, for_tomorrow),
                    events |-> Preview(got.earnings)]
    /\ clock' = done
    /\ UNCHANGED << program, restarts, sched_vars, disk, message_queue,
                    worker_vars, enqueued, write_failed, drawn >>

\* --------------------------------------------------------------- process

\* What a new process starts from: the tasks of on_ready and an empty queue.
Boot ==
    /\ pc' = "start"
    /\ already_posted' = {}
    /\ cycle' = NoCycle
    /\ err' = "none"
    /\ message_queue' = << >>
    /\ wpc' = "get"
    /\ sending' = << >>
    /\ werr' = "none"

\* The process is stopped and, at some later instant, started again.
Restart ==
    /\ restarts < MaxRestarts
    /\ restarts' = restarts + 1
    /\ \E later \in Instants :
         /\ later >= clock
         /\ clock' = later
    /\ Boot
    /\ UNCHANGED << program, disk, sent, enqueued, write_failed, drawn, reply >>

\* The process is stopped inside save_posted, after open truncated the file.
RestartDuringSave ==
    /\ restarts < MaxRestarts
    /\ pc = "save"
    /\ restarts' = restarts + 1
    /\ \E lst \in Listings(already_posted) :
         \E text \in PartialWrites(JsonDump(lst)) :
            disk' = [exists |-> TRUE, text |-> text]
    /\ write_failed' = TRUE
    /\ \E later \in Instants :
         /\ later >= clock
         /\ clock' = later
    /\ Boot
    /\ UNCHANGED << program, sent, enqueued, drawn, reply >>

Next ==
    \/ LoadPosted
    \/ IdleTick
    \/ Fire
    \/ FireUnreadable
    \/ SavePostedOk
    \/ SavePostedOpenFails
    \/ SavePostedWriteFails
    \/ Cooldown
    \/ Dequeue
    \/ DequeueNoChannel
    \/ SendOk
    \/ SendFails
    \/ Restart
    \/ RestartDuringSave

Spec == Init /\ [][Next]_vars

\* ------------------------------------------------- one scan, inputs drawn

\* The instants sampled around one scan: those of Spec, and the last fetch
\* window and the last second of day 0 with the midnight that follows.
ScanInstants ==
    Instants \cup { HMS(0, 23, 30, 0), HMS(0, 23, 59, 59), HMS(1, 0, 0, 0) }

\* The instants a scan that starts at now can end at.
DrawnEnds(now) == { t \in ScanInstants : t >= now /\ t - now <= MaxScanSeconds }

\* The scheduler sleeps at the top of its loop, about to sample a due instant
\* or, in earnings_bot.py, with the command about to be used, some set
\* already recorded and written. The answers of the one scan are drawn: .info
\* answers only where the calendar names a date, and none at all when the CSV
\* cannot be read.
ScanInit ==
    /\ program \in {"earnings_bot", "earnings_monitor"}
    /\ clock \in { t \in ScanInstants : FetchDue(t) \/ program = "earnings_bot" }
    /\ restarts = 0
    /\ pc = "loop"
    /\ already_posted \in SUBSET Tickers
    /\ cycle = NoCycle
    /\ err = "none"
    /\ \E lst \in Listings(already_posted) :
         disk = [exists |-> TRUE, text |-> JsonDump(lst)]
    /\ message_queue = << >>
    /\ wpc = "get"
    /\ sending = << >>
    /\ werr = "none"
    /\ sent = << >>
    /\ enqueued = [t \in Tickers |-> IF t \in already_posted THEN 1 ELSE 0]
    /\ write_failed = FALSE
    /\ drawn \in [csv_ok : BOOLEAN, cal : [Tickers -> CalendarAnswers],
                  inf : [Tickers -> InfoAnswers]]
    /\ drawn.csv_ok \/ (drawn.cal = NoCalendar /\ drawn.inf = NoInfo)
    /\ \A t \in Tickers : drawn.cal[t].kind = "ts" \/ drawn.inf[t] = "named"
    /\ reply = NoReply

FireDrawn ==
    \E done \in DrawnEnds(clock) : \E today \in TodayReads(clock, done) :
       FireOn(drawn.csv_ok, drawn.cal, drawn.inf, today, done)

QueryDrawn ==
    \E done \in DrawnEnds(clock) : \E today \in TodayReads(clock, done) :
       QueryOn(TickerFile, drawn.csv_ok, drawn.cal, drawn.inf, today, done)

ScanNext == FireDrawn \/ QueryDrawn

ScanSpec == ScanInit /\ [][ScanNext]_vars

\* ------------------------------------------- one use of the earnings command

\* A Symbol column with more rows than the preview shows.
LongTickerFile ==
    << "T01", "T02", "T03", "T04", "T05", "T06", "T07", "T08", "T09", "T10", "T11" >>

LongTickers == { LongTickerFile[i] : i \in 1..Len(LongTickerFile) }

\* The command is used before or after the cutoff hour, with nothing or two
\* tickers of the column already recorded and written. Every ticker has a
\* next earnings timestamp, on day 0 or on day 1, and a name, but for one
\* whose .info may raise.
QueryInit ==
    /\ program = "earnings_bot"
    /\ clock \in { HMS(0, 19, 29, 59), HMS(0, 20, 0, 3) }
    /\ restarts = 0
    /\ pc = "loop"
    /\ already_posted \in { {}, {"T01", "T11"} }
    /\ cycle = NoCycle
    /\ err = "none"
    /\ \E lst \in Listings(already_posted) :
         disk = [exists |-> TRUE, text |-> JsonDump(lst)]
    /\ message_queue = << >>
    /\ wpc = "get"
    /\ sending = << >>
    /\ werr = "none"
    /\ sent = << >>
    /\ enqueued = [t \in LongTickers |-> IF t \in already_posted THEN 1 ELSE 0]
    /\ write_failed = FALSE
    /\ drawn \in [csv_ok : BOOLEAN,
                  cal : [LongTickers -> { [kind |-> "ts", at |-> t] : t \in Timestamps }],
                  inf : { [t \in LongTickers |-> IF t = "T02" THEN a ELSE "named"] :
                             a \in LookupAnswers }]
    /\ drawn.csv_ok \/ \A t \in LongTickers :
                          drawn.cal[t].at = HMS(0, 9, 0, 30) /\ drawn.inf[t] = "named"
    /\ reply = NoReply

QueryLong ==
    /\ reply = NoReply
    /\ \E done \in DrawnEnds(clock) : \E today \in TodayReads(clock, done) :
         QueryOn(LongTickerFile, drawn.csv_ok, drawn.cal, drawn.inf, today, done)

QueryNext == QueryLong

QuerySpec == QueryInit /\ [][QueryNext]_vars

\* ------------------------------------------------------------------ claims

\* The tickers of the batches on the queue.
Queued == UNION { TickersOf(message_queue[i]) : i \in 1..Len(message_queue) }

\* The tickers some batch ever put on a queue held.
EverEnqueued == { t \in Tickers : enqueued[t] >= 1 }

\* The tickers the step at hand puts on the queue.
EnqueuedByStep == { t \in Tickers : enqueued'[t] > enqueued[t] }

\* C1: over any run, restarts included, every ticker is in at most one batch
\* ever put on the delivery queue.
C1_AtMostOneBatchPerTicker == \A t \in Tickers : enqueued[t] <= 1

\* C2: no batch is on the queue while the dedup file lacks one of its tickers.
C2_WriteBeforeEnqueue == Queued \subseteq DiskSet(disk)

\* C3: as long as every rewrite of the dedup file ran to its end, the file
\* holds every ticker the sink has received a message for.
C3_PersistedCoversDelivered == ~write_failed => Range(sent) \subseteq DiskSet(disk)

\* C3 witness: after a restart the set reloaded from the file holds a ticker
\* that was delivered before.
C3_Witness ==
    /\ restarts >= 1
    /\ pc = "loop"
    /\ ~write_failed
    /\ sent # << >>
    /\ Range(sent) \subseteq already_posted

\* C4: every ticker of the set has been enqueued at least once, and in every
\* step but the load at start the tickers the scheduler adds to the set are
\* exactly the tickers it puts on the queue.
C4_AddedIffEnqueued ==
    [][/\ already_posted' \subseteq { t \in Tickers : enqueued'[t] >= 1 }
       /\ pc # "start" => (already_posted' \ already_posted) = EnqueuedByStep]_vars

\* C4 witness: a cycle has added two tickers and put their batch on the queue.
C4_Witness ==
    /\ pc = "save"
    /\ Cardinality(already_posted \ cycle.before) = 2
    /\ message_queue # << >>
    /\ TickersOf(message_queue[Len(message_queue)]) = already_posted \ cycle.before

\* C5: a cycle in which load_tickers or the scan fails changes neither the
\* set, the file nor the queue, and the loop goes on.
C5_FailedCycleIsSkipped ==
    [][(pc = "loop" /\ err' \in {"universe", "scan"})
         => /\ already_posted' = already_posted
            /\ DiskSet(disk') = DiskSet(disk)
            /\ message_queue' = message_queue
            /\ pc' # "dead"]_vars

\* C6: a failed write of the dedup file leaves the set and the file as they
\* were before the cycle, and the loop goes on.
C6_FailedWriteIsRetried ==
    [][(pc = "save" /\ err' = "write")
         => /\ already_posted' = cycle.before
            /\ DiskSet(disk') = DiskSet(disk)
            /\ pc' # "dead"]_vars

\* C7: the dedup file is always a complete JSON array, the set before or the
\* set after the write, and the load at start never fails on it.
C7_FileAlwaysComplete ==
    [][/\ ~LoadRaises(disk')
       /\ disk' # disk => DiskSet(disk') \in {DiskSet(disk), already_posted}
       /\ err' # "load"]_vars

\* C8: when a delivery fails the batch is dropped, not sent again and not put
\* back, the set is unchanged and the worker goes on.
C8_WorkerSurvivesSinkFailure ==
    [][(werr = "none" /\ werr' # "none")
         => /\ sending' = << >>
            /\ Len(message_queue') <= Len(message_queue)
            /\ already_posted' = already_posted
            /\ wpc' # "dead"]_vars

\* Whether the calendar drawn for ticker t names the target date of the cycle.
Matching(t) == drawn.cal[t].kind = "ts" /\ Date(drawn.cal[t].at) = cycle.target_date

LastBatch == IF message_queue = << >> THEN << >> ELSE message_queue[Len(message_queue)]

\* C9: a calendar that fails for one ticker yields no event for it, and every
\* other ticker whose date matches is in the scan result and, when new, in
\* the batch put on the queue.
C9_ProviderFailureIsLocal ==
    (cycle.active /\ drawn.csv_ok) =>
        \A t \in Tickers : drawn.cal[t].kind = "error" =>
            /\ t \notin TickersOf(cycle.earnings)
            /\ \A u \in Tickers \ {t} : Matching(u) =>
                  /\ u \in TickersOf(cycle.earnings)
                  /\ u \notin cycle.before => u \in TickersOf(LastBatch)

\* C10: a .info that fails for a matching ticker does not fail the scan: the
\* ticker's event carries the placeholder name and every matching ticker is
\* in the result.
C10_LookupFailureKeepsScan ==
    (cycle.active /\ drawn.csv_ok) =>
        \A t \in Tickers : (Matching(t) /\ drawn.inf[t] = "error") =>
            /\ err # "scan"
            /\ \E i \in 1..Len(cycle.earnings) :
                  /\ cycle.earnings[i].ticker = t
                  /\ cycle.earnings[i].company = Placeholder
            /\ \A u \in Tickers : Matching(u) => u \in TickersOf(cycle.earnings)

\* The events of the batches of a queue, oldest first.
RECURSIVE Flatten(_)
Flatten(queue) == IF queue = << >> THEN << >> ELSE Head(queue) \o Flatten(Tail(queue))

\* The events still to be sent, oldest first: the rest of the batch being
\* delivered, then the batches on the queue.
Pending == sending \o Flatten(message_queue)

IsPrefix(s, t) == Len(s) <= Len(t) /\ SubSeq(t, 1, Len(s)) = s
IsSuffix(s, t) == Len(s) <= Len(t) /\ SubSeq(t, Len(t) - Len(s) + 1, Len(t)) = s

\* C11: the event the sink receives is always the oldest pending one, the
\* scheduler only appends behind the pending events, dropping only removes
\* from the front, and a batch is taken off the queue only when the batch
\* before it has no event left to send.
C11_FifoDelivery ==
    [][/\ \/ /\ Pending # << >>
             /\ sent' = Append(sent, Head(Pending).ticker)
             /\ Pending' = Tail(Pending)
          \/ /\ sent' = sent
             /\ IsSuffix(Pending', Pending) \/ IsPrefix(Pending, Pending')
       /\ (restarts' = restarts /\ Len(message_queue') < Len(message_queue))
            => sending = << >>]_vars

\* C11 witness: the scheduler has enqueued a batch while the delivery of an
\* earlier one is in progress.
C11_Witness ==
    /\ wpc = "send"
    /\ sending # << >>
    /\ message_queue # << >>
    /\ pc = "cooldown"

\* Whether the sampled clock has an instant at least d seconds after now.
HasLater(now, d) == \E later \in Instants : later >= now + d

\* The calendar in which every ticker not yet recorded reports on the target
\* date of a scan fired at now, and the recorded ones have no date.
DueNew(now) ==
    [t \in Tickers |->
        IF t \in already_posted THEN [kind |-> "empty", at |-> NoTime]
        ELSE [kind |-> "ts",
              at |-> CHOOSE ts \in Timestamps :
                        Date(ts) = TargetDate(now, Hour(now) >= CutoffHour)]]

\* C12: whatever the worker does and however many batches wait, the step the
\* scheduler is at can be taken: the predicate is evaluated each tick, a due
\* instant fires the scan, a scan that finds a new ticker puts its batch, the
\* dedup file is rewritten and the cooldown ends.
C12_SchedulerNeverWaits ==
    /\ (pc = "loop" /\ FetchDue(clock))
         => ENABLED (/\ FireOn(TRUE, DueNew(clock), NoInfo, clock, clock)
                     /\ already_posted # Tickers
                          => Len(message_queue') = Len(message_queue) + 1)
    /\ (pc = "loop" /\ ~FetchDue(clock) /\ HasLater(clock, TickSeconds)) => ENABLED IdleTick
    /\ pc = "save" => ENABLED SavePostedOk
    /\ (pc = "cooldown" /\ HasLater(clock, CooldownSeconds)) => ENABLED Cooldown

\* C12 witness: with a sink call outstanding and a batch waiting, the
\* scheduler has fired in a later window and put a further batch.
C12_Witness ==
    /\ wpc = "send"
    /\ sending # << >>
    /\ pc = "save"
    /\ Len(message_queue) >= 1
    /\ cycle.new_earnings # << >>
    /\ message_queue[Len(message_queue)] = cycle.new_earnings

\* Whether two instants lie in one fetch window: both due, in the same minute.
SameWindow(f, e) == FetchDue(f) /\ FetchDue(e) /\ f - Second(f) = e - Second(e)

\* C13: when the loop comes back to its predicate after a cycle, the instant
\* it samples lies outside the window of every due instant up to the end of
\* the scan, the instant the cycle fired at among them.
C13_OneScanPerWindow ==
    [][(pc = "cooldown" /\ pc' = "loop" /\ restarts' = restarts)
         => \A f \in Instants : (f <= clock /\ FetchDue(f)) => ~SameWindow(f, clock')]_vars

\* C13 witness: a cycle that fired at 19:30:00 with a scan of no duration has
\* written the file, and the loop is back at its predicate 61 seconds later.
C13_Witness ==
    /\ restarts = 0
    /\ pc = "loop"
    /\ disk.exists
    /\ clock = HMS(0, 19, 31, 1)

\* The firing predicate in the claim's words.
DueByClaim(t) == Minute(t) \in {0, 30} /\ Second(t) < 5

\* A step of the scheduler task from the top of its loop.
LoopStep == pc = "loop" /\ restarts' = restarts /\ (clock' # clock \/ pc' # pc)

\* C14: from the top of the loop the scheduler starts a scan when the sampled
\* minute is 0 or 30 and the second below 5; at every other sample it sleeps
\* at least a tick, starts no scan, and leaves the set, the file and the
\* queue as they are.
C14_FiresExactlyWhenDue ==
    [][LoopStep =>
         IF DueByClaim(clock)
         THEN cycle'.active /\ pc' \in {"save", "dead"}
         ELSE /\ pc' = "loop"
              /\ clock' >= clock + TickSeconds
              /\ cycle' = cycle /\ ~cycle'.active
              /\ already_posted' = already_posted
              /\ disk' = disk
              /\ message_queue' = message_queue
              /\ enqueued' = enqueued]_vars

\* C14 witness: the sample 19:30:05, one second past the window, with no scan
\* started so far.
C14_Witness ==
    /\ restarts = 0
    /\ pc = "loop"
    /\ clock = HMS(0, 19, 30, 5)
    /\ ~disk.exists
    /\ err = "none"
    /\ \A t \in Tickers : enqueued[t] = 0

\* The target date by the claim's rule, from the one instant t.
TargetByRule(t) == Date(t) + (IF Hour(t) >= 20 THEN 1 ELSE 0)

\* C15: the target date of a scan the scheduler fires, and of a scan the
\* earnings command runs, is the day after the instant sampled for the cutoff
\* when its hour is 20 or later, and the day of that instant otherwise.
C15_TargetDateFromOneInstant ==
    [][/\ (cycle'.active /\ ~cycle.active) => cycle'.target_date = TargetByRule(clock)
       /\ reply'.kind # "none" /\ reply' # reply
            => reply'.target_date = TargetByRule(clock)]_vars

\* The first n elements of a sequence, all of them when it has fewer.
FirstN(seq, n) == SubSeq(seq, 1, IF Len(seq) < n THEN Len(seq) ELSE n)

\* The tickers of the column, in its order, whose drawn timestamp falls on
\* the date td; none when the column cannot be read.
DueOn(td) ==
    IF drawn.csv_ok
    THEN SelectSeq(LongTickerFile, LAMBDA t : Date(drawn.cal[t].at) = td)
    ELSE << >>

\* Whether the .info of a ticker due on the date td raises.
LookupRaisesOn(td) ==
    \E i \in 1..Len(DueOn(td)) : drawn.inf[DueOn(td)[i]] = "error"

\* C16: a use of the earnings command leaves the set, the file and the queue
\* as they are, and what it answers is the first 10 at most of the tickers
\* due on its target date, in the order of the column, recorded ones
\* included; it answers nothing when the scan raises.
C16_QueryIsReadOnlyPreview ==
    [][/\ already_posted' = already_posted
       /\ disk' = disk
       /\ message_queue' = message_queue
       /\ enqueued' = enqueued
       /\ \E want \in {FirstN(DueOn(reply'.target_date), 10)} :
            IF LookupRaisesOn(reply'.target_date)
            THEN reply'.kind = "raised" /\ reply'.events = << >>
            ELSE /\ [i \in 1..Len(reply'.events) |-> reply'.events[i].ticker] = want
                 /\ reply'.kind = IF want = << >> THEN "empty" ELSE "preview"]_vars

\* C16 witness: all 11 tickers are due, two of them recorded already, and
\* the answer shows the first 10, a recorded one at their head.
C16_Witness ==
    /\ reply.kind = "preview"
    /\ Len(DueOn(reply.target_date)) = 11
    /\ Len(reply.events) = 10
    /\ reply.events[1].ticker \in already_posted
    /\ DiskSet(disk) = already_posted
    /\ message_queue = << >>

\* The tickers of a sequence of events, in its order.
TickerSeq(events) == [i \in 1..Len(events) |-> events[i].ticker]

\* C17: a scan that returns gives the symbols of the column, in its order
\* and each once, whose calendar names a timestamp on the target date, and no
\* other, whatever the set already recorded.
C17_ScanResultInUniverseOrder ==
    (cycle.active /\ pc = "save") =>
        TickerSeq(cycle.earnings)
            = SelectSeq(IF drawn.csv_ok THEN << "AAA", "BBB" >> ELSE << >>, Matching)

\* C17 witness: both symbols are due and both recorded already; the scan
\* result holds the two in the order of the column.
C17_Witness ==
    /\ cycle.active
    /\ pc = "save"
    /\ cycle.before = Tickers
    /\ TickerSeq(cycle.earnings) = << "AAA", "BBB" >>
    /\ cycle.new_earnings = << >>

\* C18: no step of a running scheduler takes a ticker out of its set, and no
\* step takes a ticker out of the set the dedup file holds.
C18_DedupOnlyGrows ==
    [][/\ restarts' = restarts => already_posted \subseteq already_posted'
       /\ DiskSet(disk) \subseteq DiskSet(disk')]_vars

\* C19: no batch on the queue is empty, a cycle that finds nothing new leaves
\* the queue as it is, and the batch the worker takes holds an event.
C19_NoEmptyBatch ==
    [][/\ \A i \in 1..Len(message_queue') : message_queue'[i] # << >>
       /\ (cycle'.active /\ ~cycle.active /\ cycle'.new_earnings = << >>)
            => message_queue' = message_queue
       /\ (wpc = "get" /\ wpc' = "send") => sending' # << >>]_vars

\* C19 witness: the scan found events, all of them recorded already, and
\* nothing was put on the queue.
C19_Witness ==
    /\ pc = "save"
    /\ cycle.active
    /\ cycle.earnings # << >>
    /\ TickersOf(cycle.earnings) \subseteq cycle.before
    /\ cycle.new_earnings = << >>
    /\ message_queue = << >>

\* A step of the worker task: it takes a batch, drops one or sends an event.
WorkerStep ==
    /\ restarts' = restarts
    /\ wpc' # wpc \/ sending' # sending \/ Len(message_queue') < Len(message_queue)

\* C20: the step that puts a batch leaves the worker where it was, with
\* save_posted next; the worker steps only when no cycle is between its put
\* and its save_posted, and a batch it takes off the queue is in the file
\* unless a rewrite of the file has failed.
C20_NoYieldBetweenPutAndSave ==
    [][/\ (cycle'.active /\ ~cycle.active /\ message_queue' # message_queue)
            => pc' = "save" /\ UNCHANGED worker_vars
       /\ WorkerStep =>
            /\ pc \in {"loop", "cooldown", "dead"}
            /\ message_queue' # message_queue
                 => \/ TickersOf(Head(message_queue)) \subseteq DiskSet(disk)
                    \/ write_failed]_vars

\* C20 witness: the worker has taken the batch during the cooldown sleep of
\* the cycle that put it, after the file was written with its tickers.
C20_Witness ==
    /\ restarts = 0
    /\ pc = "cooldown"
    /\ wpc = "send"
    /\ sending # << >>
    /\ TickersOf(sending) = DiskSet(disk)
    /\ ~write_failed

====
